---- MODULE Spec2Model ----
(***************************************************************************)
(* keepass-cli (src/src/main.rs): the mode dispatcher of main, the         *)
(* recursive navigation prompt over the breadcrumb stack `context`, the    *)
(* title search and the entry formatter.                                   *)
(*                                                                         *)
(* Option<T> is modelled as a sequence of length at most one: <<>> is None *)
(* and <<v>> is Some(v).  Indices are 0-based as in the source; the i-th   *)
(* element of a Vec v is v[i + 1] here.  References into the tree (&Group, *)
(* &Entry) are node identifiers, the keys of db.                           *)
(***************************************************************************)
EXTENDS Integers, Sequences, FiniteSets, TLC

VARIABLES
    db,                  \* the opened tree: node id -> Group or Entry; db[Root] is db.root
    args,                \* Args: [entry_title : Option<String>]
    open_ok,             \* whether Database::open returns Ok
    pc,                  \* where the process is: "start", "prompt" (Select waits for a key),
                         \* "done" (END printed, main returned Ok), "exit" (search mode
                         \* returned Ok), "open_failed" (main returned Err), "panicked"
    context,             \* Vec<Context>, bottom first
    node,                \* the `node` argument of the running prompt call
    selections,          \* the items handed to Select
    prompt_message,      \* the breadcrumb path string
    hint,                \* the ESC hint
    last_selected_index, \* the default handed to Select
    selection,           \* Option<Option<usize>>: what Select last returned, << >> before
                         \* the first key; << << >> >> is ESC, << << i >> >> is index i
    items,               \* the labels Select renders, one per selection
    search_result,       \* Option<Vec<&Entry>>: the value returned by search_entry_by_title
    out,                 \* the lines written to stdout by the last step
    picked,              \* history: per frame of context, Option<index last selected in it>
    cancel_run,          \* history: number of cancellations since the last selection
    run_start_depth,     \* history: context.len() when that run of cancellations began
    left,                \* history: Option<[node, idx]> of the frame the last step popped
    redescent            \* history: Option<index> set when the last step re-selected the
                         \* group just left, the index last selected in it before leaving

vars == << db, args, open_ok, pc, context, node, selections, prompt_message, hint,
           last_selected_index, selection, items, search_result, out, picked,
           cancel_run, run_start_depth, left, redescent >>

(***************************************************************************)
(* Bounds and input sets.                                                  *)
(***************************************************************************)
MaxNodes == 4

Root == 1

GroupNames == {"Database", "Web"}

SearchTitles == {"Email", "email", "Nope"}

GroupPool == { [kind |-> "Group", name |-> n] : n \in GroupNames }

EntryPool ==
    { [kind |-> "Entry",
       fields |-> [Title |-> "Email", UserName |-> "a@x.com", Password |-> "p1"]],
      [kind |-> "Entry",
       fields |-> [Title |-> "Email", UserName |-> "b", Password |-> "p2",
                   Notes |-> "call back"]],
      [kind |-> "Entry",
       fields |-> [Title |-> "email", UserName |-> "c", Password |-> "p3",
                   Notes |-> ""]],
      [kind |-> "Entry", fields |-> [UserName |-> "d", Password |-> "p4"]],
      [kind |-> "Entry", fields |-> [Title |-> "Email", Password |-> "p5"]],
      [kind |-> "Entry", fields |-> [Title |-> "email", UserName |-> "f"]] }

\* parent[n] < n: node ids are assigned in creation order
ParentFns(N) == { p \in [2..N -> 1..N] : \A n \in 2..N : p[n] < n }

HasChild(N, p, n) == \E m \in 2..N : p[m] = n

RECURSIVE AscendingSeq(_)
AscendingSeq(S) ==
    IF S = {} THEN << >>
    ELSE LET m == CHOOSE x \in S : \A y \in S : x <= y
         IN  << m >> \o AscendingSeq(S \ {m})

\* a node that has children is a Group; a leaf is an Entry or an empty Group
LabelFns(N, p) ==
    { l \in [1..N -> GroupPool \cup EntryPool] :
        \A n \in 1..N : (n = Root \/ HasChild(N, p, n)) => l[n].kind = "Group" }

BuildTree(N, p, l) ==
    [ n \in 1..N |->
        IF l[n].kind = "Group"
        THEN [kind |-> "Group", name |-> l[n].name,
              children |-> AscendingSeq({ m \in 2..N : p[m] = n })]
        ELSE l[n] ]

(***************************************************************************)
(* keepass::Entry field access.                                            *)
(***************************************************************************)
get(e, key) == IF key \in DOMAIN e.fields THEN << e.fields[key] >> ELSE << >>

get_title(e) == get(e, "Title")

get_username(e) == get(e, "UserName")

get_password(e) == get(e, "Password")

Last(s) == s[Len(s)]

(***************************************************************************)
(* Iteration over a group (`for node in root_node`): keepass::NodeIter     *)
(* keeps a queue that starts with the group itself; next() pops the front  *)
(* of the queue and, when that node is a group, appends its children to    *)
(* the back.  NodeIter(t, queue) is the sequence of nodes it yields.       *)
(***************************************************************************)
\* mutant: the children of a group are put at the front of the queue
RECURSIVE NodeIterDepthFirst(_, _)
NodeIterDepthFirst(t, queue) ==
    IF queue = << >> THEN << >>
    ELSE LET head == Head(queue)
             rest == IF t[head].kind = "Group"
                     THEN t[head].children \o Tail(queue)
                     ELSE Tail(queue)
         IN  << head >> \o NodeIterDepthFirst(t, rest)

RECURSIVE NodeIter(_, _)
NodeIter(t, queue) ==
    IF queue = << >> THEN << >>
    ELSE LET head == Head(queue)
             rest == IF t[head].kind = "Group"
                     THEN Tail(queue) \o t[head].children
                     ELSE Tail(queue)
         IN  << head >> \o NodeIter(t, rest)

\* the body of the for loop of search_entry_by_title over the nodes still to
\* come; ok = FALSE is the panic of get_title().unwrap()
RECURSIVE SearchLoop(_, _, _, _)
SearchLoop(t, title, nodes, result) ==
    IF nodes = << >> THEN [ok |-> TRUE, result |-> result]
    ELSE LET n == Head(nodes) IN
         IF t[n].kind = "Entry"
         THEN IF get_title(t[n]) = << >>
              THEN [ok |-> FALSE, result |-> << >>]
              ELSE IF get_title(t[n])[1] = title
                   THEN SearchLoop(t, title, Tail(nodes), Append(result, n))
                   ELSE SearchLoop(t, title, Tail(nodes), result)
         ELSE SearchLoop(t, title, Tail(nodes), result)

search_entry_by_title(title, t, root_node) ==
    SearchLoop(t, title, NodeIter(t, << root_node >>), << >>)

(***************************************************************************)
(* Output lines.  A line is [style, prefix, text]; the icon glyphs of the  *)
(* source are written as words.                                            *)
(***************************************************************************)
Line(style, prefix, text) == [style |-> style, prefix |-> prefix, text |-> text]

BlankLine == Line("plain", "", "")

\* mutant: a Notes field is printed whenever it is present
print_entry_any_notes(t, e) ==
    LET entry == t[e]
        l1 == << Line("italic", "", get_title(entry)[1]) >>
        l2 == Append(l1, Line("bold", "  user: ", get_username(entry)[1]))
        l3 == Append(l2, Line("bold", "  key: ", get_password(entry)[1]))
        notes == get(entry, "Notes")
    IN  IF get_title(entry) = << >> THEN [ok |-> FALSE, lines |-> << >>]
        ELSE IF get_username(entry) = << >> THEN [ok |-> FALSE, lines |-> l1]
        ELSE IF get_password(entry) = << >> THEN [ok |-> FALSE, lines |-> l2]
        ELSE IF notes # << >>
             THEN [ok |-> TRUE, lines |-> Append(l3, Line("plain", "  note: ", notes[1]))]
             ELSE [ok |-> TRUE, lines |-> l3]

\* print_entry: the lines written and whether it returned (ok) or panicked
\* in an unwrap after writing them
print_entry(t, e) ==
    LET entry == t[e]
        l1 == << Line("italic", "", get_title(entry)[1]) >>
        l2 == Append(l1, Line("bold", "  user: ", get_username(entry)[1]))
        l3 == Append(l2, Line("bold", "  key: ", get_password(entry)[1]))
        notes == get(entry, "Notes")
    IN  IF get_title(entry) = << >> THEN [ok |-> FALSE, lines |-> << >>]
        ELSE IF get_username(entry) = << >> THEN [ok |-> FALSE, lines |-> l1]
        ELSE IF get_password(entry) = << >> THEN [ok |-> FALSE, lines |-> l2]
        ELSE IF notes # << >> /\ Len(notes[1]) > 0
             THEN [ok |-> TRUE, lines |-> Append(l3, Line("plain", "  note: ", notes[1]))]
             ELSE [ok |-> TRUE, lines |-> l3]

\* the loop `for entry in search_result { print_entry(entry); println!(); }`
RECURSIVE PrintLoop(_, _)
PrintLoop(t, entries) ==
    IF entries = << >> THEN [ok |-> TRUE, lines |-> << >>]
    ELSE LET first == print_entry(t, Head(entries)) IN
         IF ~first.ok THEN first
         ELSE LET others == PrintLoop(t, Tail(entries))
              IN  [ok |-> others.ok,
                   lines |-> first.lines \o << BlankLine >> \o others.lines]

NoEntriesFound == Line("plain", "", "No entries found")

CountLine(n, title) ==
    Line("plain", "",
         "Found " \o ToString(n) \o " result(s) for title name \"" \o title \o "\"")

\* mutant: a single hit is reported as no hit
SearchOutputOffByOne(t, title, result) ==
    IF Len(result) <= 1
    THEN [ok |-> TRUE, lines |-> << NoEntriesFound >>]
    ELSE LET printed == PrintLoop(t, result)
         IN  [ok |-> printed.ok,
              lines |-> << CountLine(Len(result), title) >> \o printed.lines]

\* the search branch of main once search_entry_by_title has returned
SearchOutput(t, title, result) ==
    IF Len(result) = 0
    THEN [ok |-> TRUE, lines |-> << NoEntriesFound >>]
    ELSE LET printed == PrintLoop(t, result)
         IN  [ok |-> printed.ok,
              lines |-> << CountLine(Len(result), title) >> \o printed.lines]

(***************************************************************************)
(* The display part of prompt.                                             *)
(***************************************************************************)
\* Selection::fmt; << >> is the panic of get_title().unwrap()
SelectionFmt(t, c) ==
    IF t[c].kind = "Group" THEN << "folder " \o t[c].name >>
    ELSE IF get_title(t[c]) = << >> THEN << >>
         ELSE << "key " \o get_title(t[c])[1] >>

\* mutant: the list is always built from the root group
SelectionsOfRoot(t, nd) == t[Root].children

Selections(t, nd) == t[nd].children

RECURSIVE Join(_, _)
Join(strs, sep) ==
    IF strs = << >> THEN ""
    ELSE IF Len(strs) = 1 THEN strs[1]
         ELSE strs[1] \o sep \o Join(Tail(strs), sep)

\* mutant: the path shows the current group only
PromptMessageTopOnly(t, ctx) == t[Last(ctx).node].name

PromptMessage(t, ctx) == Join([ i \in 1..Len(ctx) |-> t[ctx[i].node].name ], " > ")

HintExit == "(press ESC to exit)"

HintBack == "(press ESC to go back)"

\* mutant: the exit hint is chosen one level too deep
HintOffByOne(ctx) == IF Len(ctx) <= 2 THEN HintExit ELSE HintBack

Hint(ctx) == IF Len(ctx) = 1 THEN HintExit ELSE HintBack

LastSelectedIndex(ctx) == IF ctx # << >> THEN Last(ctx).index ELSE 0

\* Select::items renders every item, and interact_on_opt returns Err for an
\* empty list of items; both end in a panic (unwrap)
SelectStarts(t, sels) ==
    /\ \A i \in 1..Len(sels) : SelectionFmt(t, sels[i]) # << >>
    /\ sels # << >>

\* prompt(term, nd, ctx) up to the point where Select waits for a key
Prompt(nd, ctx) ==
    LET sels == Selections(db, nd) IN
    /\ context' = ctx
    /\ node' = nd
    /\ selections' = sels
    /\ prompt_message' = PromptMessage(db, ctx)
    /\ hint' = Hint(ctx)
    /\ last_selected_index' = LastSelectedIndex(ctx)
    /\ items' = IF \A i \in 1..Len(sels) : SelectionFmt(db, sels[i]) # << >>
                THEN [ i \in 1..Len(sels) |-> SelectionFmt(db, sels[i])[1] ]
                ELSE << >>
    /\ pc' = IF SelectStarts(db, sels) THEN "prompt" ELSE "panicked"

(***************************************************************************)
(* The state after construction and the steps.                             *)
(***************************************************************************)
Init ==
    /\ \E N \in 1..MaxNodes : \E p \in ParentFns(N) : \E l \in LabelFns(N, p) :
          db = BuildTree(N, p, l)
    /\ args \in { [entry_title |-> o] : o \in { << >> } \cup { << s >> : s \in SearchTitles } }
    /\ open_ok \in BOOLEAN
    /\ pc = "start"
    /\ context = << >>
    /\ node = Root
    /\ selections = << >>
    /\ prompt_message = ""
    /\ hint = ""
    /\ last_selected_index = 0
    /\ selection = << >>
    /\ items = << >>
    /\ search_result = << >>
    /\ out = << >>
    /\ picked = << >>
    /\ cancel_run = 0
    /\ run_start_depth = 0
    /\ left = << >>
    /\ redescent = << >>

RootContext == [node |-> Root, index |-> 0]

\* mutant: the result of the open is not looked at
OpenedWhatever(ok) == TRUE

\* `Database::open(...)?`: main goes on only with an Ok
Opened(ok) == ok

\* main: open the database, then search and print, or start the navigation
Main ==
    /\ pc = "start"
    /\ UNCHANGED << db, args, open_ok, selection, left, redescent, cancel_run >>
    /\ IF ~Opened(open_ok)
       THEN /\ pc' = "open_failed"
            /\ UNCHANGED << context, node, selections, prompt_message, hint,
                            last_selected_index, items, search_result, out, picked,
                            run_start_depth >>
       ELSE IF args.entry_title # << >>
       THEN LET title == args.entry_title[1]
                found == search_entry_by_title(title, db, Root)
                shown == SearchOutput(db, title, found.result)
            IN  /\ search_result' = IF found.ok THEN << found.result >> ELSE << >>
                /\ out' = IF found.ok THEN shown.lines ELSE << >>
                /\ pc' = IF found.ok /\ shown.ok THEN "exit" ELSE "panicked"
                /\ UNCHANGED << context, node, selections, prompt_message, hint,
                                last_selected_index, items, picked, run_start_depth >>
       ELSE /\ Prompt(Root, << RootContext >>)
            /\ picked' = << << >> >>
            /\ run_start_depth' = 1
            /\ UNCHANGED << search_result, out >>

\* mutant: the index is stored one too high
SetIndexOffByOne(ctx, selected) == [ctx EXCEPT ![Len(ctx)].index = selected + 1]

\* mutant: the index is stored in every frame
SetIndexEverywhere(ctx, selected) ==
    [ k \in 1..Len(ctx) |-> [node |-> ctx[k].node, index |-> selected] ]

\* mutant: the selected index is not stored
SetIndexForgets(ctx, selected) == ctx

SetIndex(ctx, selected) == [ctx EXCEPT ![Len(ctx)].index = selected]

\* mutant: the new frame replaces the top frame
PushContextReplacesTop(ctx, g) == [ctx EXCEPT ![Len(ctx)] = [node |-> g, index |-> 0]]

\* mutant: the new frame starts at the depth instead of 0
PushContextAtDepth(ctx, g) == Append(ctx, [node |-> g, index |-> Len(ctx)])

PushContext(ctx, g) == Append(ctx, [node |-> g, index |-> 0])

\* mutant: ESC never drops the root frame
PopContextKeepsRoot(ctx) == IF Len(ctx) = 1 THEN ctx ELSE SubSeq(ctx, 1, Len(ctx) - 1)

\* mutant: ESC drops two frames
PopContextTwice(ctx) == SubSeq(ctx, 1, Len(ctx) - 2)

PopContext(ctx) == SubSeq(ctx, 1, Len(ctx) - 1)

\* mutant: the prompt is re-entered with the root group
TopNodeIsRoot(ctx) == ctx[1].node

\* context.last().unwrap().node, the group the prompt is re-entered with
TopNode(ctx) == Last(ctx).node

\* the Some(selected) arm of prompt, followed by the display of the next prompt
Select(selected) ==
    /\ pc = "prompt"
    /\ selected \in 0..(Len(selections) - 1)
    /\ LET ctx1 == SetIndex(context, selected)
           child == selections[selected + 1]
           picked1 == [picked EXCEPT ![Len(picked)] = << selected >>]
       IN  IF db[child].kind = "Group"
           THEN /\ Prompt(child, PushContext(ctx1, child))
                /\ out' = << >>
                /\ picked' = Append(picked1, << >>)
                /\ run_start_depth' = Len(context) + 1
                /\ redescent' = IF left # << >> /\ left[1].node = child
                                THEN left[1].idx ELSE << >>
           ELSE LET printed == print_entry(db, child) IN
                /\ picked' = picked1
                /\ run_start_depth' = Len(context)
                /\ redescent' = << >>
                /\ IF printed.ok
                   THEN /\ out' = Append(printed.lines, BlankLine)
                        /\ Prompt(TopNode(ctx1), ctx1)
                   ELSE /\ out' = printed.lines
                        /\ context' = ctx1
                        /\ pc' = "panicked"
                        /\ UNCHANGED << node, selections, prompt_message, hint,
                                        last_selected_index, items >>
    /\ selection' = << << selected >> >>
    /\ cancel_run' = 0
    /\ left' = << >>
    /\ UNCHANGED << db, args, open_ok, search_result >>

EndLine == Line("plain", "", "END")

\* the None arm of prompt: ESC
Cancel ==
    /\ pc = "prompt"
    /\ LET ctx1 == PopContext(context) IN
       IF ctx1 # << >>
       THEN /\ Prompt(TopNode(ctx1), ctx1)
            /\ out' = << >>
       ELSE /\ context' = ctx1
            /\ out' = << BlankLine, EndLine >>
            /\ pc' = "done"
            /\ UNCHANGED << node, selections, prompt_message, hint,
                            last_selected_index, items >>
    /\ selection' = << << >> >>
    /\ picked' = SubSeq(picked, 1, Len(picked) - 1)
    /\ cancel_run' = cancel_run + 1
    /\ left' = << [node |-> Last(context).node, idx |-> Last(picked)] >>
    /\ redescent' = << >>
    /\ UNCHANGED << db, args, open_ok, search_result, run_start_depth >>

Next == Main \/ (\E selected \in 0..(MaxNodes - 1) : Select(selected)) \/ Cancel

Spec == Init /\ [][Next]_vars

(***************************************************************************)
(* Properties.                                                             *)
(***************************************************************************)
Displayed == pc = "prompt"

\* C1 (as stated): when the user selected index i in group G, cancelled out
\* of G and selected G again from the parent, G is displayed with default i.
C1_RedescentRestoresCursor ==
    (Displayed /\ redescent # << >>) => last_selected_index = redescent[1]

\* C1 (amended): when the user selected index i in group G, cancelled out of
\* G and selected G again from the parent, G is displayed with default 0,
\* whatever i was: the frame pushed for G is a new one.
C1_RedescentStartsAtZero ==
    redescent # << >> =>
        /\ Displayed
        /\ node = Last(context).node
        /\ last_selected_index = 0

C1_Witness == Displayed /\ redescent # << >> /\ redescent[1] > 0

\* C2: at every display step the default index is the index most recently
\* selected in the top frame since that frame was pushed, and 0 if nothing
\* was selected in it yet.
C2_DefaultIsLastPicked ==
    Displayed =>
        last_selected_index = (IF Last(picked) = << >> THEN 0 ELSE Last(picked)[1])

\* the last step was a cancellation out of the sub-group at index 1 of the
\* group now displayed again
C2_Witness ==
    /\ Displayed
    /\ left # << >>
    /\ last_selected_index = 1
    /\ selections[2] = left[1].node

\* C3: a run of consecutive cancellations that starts at depth d ends in the
\* terminal state, with an empty stack, after exactly d cancellations and not
\* before; every cancellation of the run removes exactly one frame.
C3_CancelRunTerminates ==
    (Displayed \/ cancel_run > 0) =>
        /\ pc \in {"prompt", "done"}
        /\ Len(context) + cancel_run = run_start_depth
        /\ (pc = "done") = (cancel_run = run_start_depth)
        /\ (pc = "done") = (context = << >>)
        /\ run_start_depth >= 1

C3_Witness == pc = "done" /\ cancel_run = 3 /\ run_start_depth = 3

\* the names of the groups of the frames, from the bottom frame to frame k
RECURSIVE PathUpTo(_, _)
PathUpTo(ctx, k) ==
    IF k = 1 THEN db[ctx[1].node].name
    ELSE PathUpTo(ctx, k - 1) \o " > " \o db[ctx[k].node].name

\* C4: at every display step the prompt path is the names of the groups of
\* all frames of the stack, from the root frame to the top frame, joined
\* with " > ".
C4_BreadcrumbIsStackPath ==
    Displayed =>
        /\ context[1].node = Root
        /\ prompt_message = PathUpTo(context, Len(context))

C4_Witness == Displayed /\ prompt_message = "Database > Web > Database"

\* C5: at every display step the exit hint is shown iff the stack depth is 1
\* and the go-back hint iff it is greater than 1; and a cancellation ends the
\* loop exactly when the exit hint is shown.
C5_HintMatchesDepth ==
    /\ [](Displayed =>
            /\ (hint = HintExit) = (Len(context) = 1)
            /\ (hint = HintBack) = (Len(context) > 1))
    /\ [][(Displayed /\ cancel_run' = cancel_run + 1) =>
            ((pc' = "done") = (hint = HintExit))]_vars

C5_Witness == pc = "done" /\ hint = HintExit /\ cancel_run = 2

(***************************************************************************)
(* Properties of search mode and of the entry formatter.                   *)
(***************************************************************************)
\* main has run its search branch
SearchRan == pc # "start" /\ open_ok /\ args.entry_title # << >>

SearchedTitle == args.entry_title[1]

Range(seq) == { seq[i] : i \in 1..Len(seq) }

HasField(n, key) == key \in DOMAIN db[n].fields

\* the entries of the tree whose Title field is exactly s
MatchingEntries(s) ==
    { n \in DOMAIN db : db[n].kind = "Entry" /\ HasField(n, "Title")
                        /\ db[n].fields.Title = s }

\* C6 (as stated): for every tree and title the search returns a sequence,
\* which holds exactly the entries of the tree whose Title equals the title,
\* each once; it is the empty sequence when none match.
C6_SearchSoundAndComplete ==
    SearchRan =>
        /\ search_result # << >>
        /\ Range(search_result[1]) = MatchingEntries(SearchedTitle)
        /\ Len(search_result[1]) = Cardinality(MatchingEntries(SearchedTitle))

ParentOf(n) == CHOOSE g \in DOMAIN db : db[g].kind = "Group" /\ n \in Range(db[g].children)

RECURSIVE DepthOf(_)
DepthOf(n) == IF n = Root THEN 0 ELSE 1 + DepthOf(ParentOf(n))

\* the nodes below and including n, a group before its children and the
\* subtree of a child before the next child
RECURSIVE PreOrder(_)
RECURSIVE PreOrderAll(_)
PreOrder(n) ==
    IF db[n].kind = "Group" THEN << n >> \o PreOrderAll(db[n].children) ELSE << n >>

PreOrderAll(nodes) ==
    IF nodes = << >> THEN << >> ELSE PreOrder(Head(nodes)) \o PreOrderAll(Tail(nodes))

PositionIn(seq, x) == CHOOSE i \in 1..Len(seq) : seq[i] = x

IsMatch(n) == n \in MatchingEntries(SearchedTitle)

EntryComplete(n) ==
    HasField(n, "Title") /\ HasField(n, "UserName") /\ HasField(n, "Password")

NotesLine(n) ==
    IF HasField(n, "Notes") /\ db[n].fields.Notes # ""
    THEN << Line("plain", "  note: ", db[n].fields.Notes) >>
    ELSE << >>

\* an entry with title, username and password, formatted
Formatted(n) ==
    << Line("italic", "", db[n].fields.Title),
       Line("bold", "  user: ", db[n].fields.UserName),
       Line("bold", "  key: ", db[n].fields.Password) >> \o NotesLine(n)

\* what is written of an entry that has a title but no username or password
\* before the formatter fails
Partial(n) ==
    << Line("italic", "", db[n].fields.Title) >>
    \o (IF HasField(n, "UserName")
        THEN << Line("bold", "  user: ", db[n].fields.UserName) >> ELSE << >>)

RECURSIVE AllFormatted(_)
AllFormatted(hits) ==
    IF hits = << >> THEN << >>
    ELSE Formatted(Head(hits)) \o << BlankLine >> \o AllFormatted(Tail(hits))

RECURSIVE FormattedUntilIncomplete(_)
FormattedUntilIncomplete(hits) ==
    IF hits = << >> THEN << >>
    ELSE IF EntryComplete(Head(hits))
         THEN Formatted(Head(hits)) \o << BlankLine >>
              \o FormattedUntilIncomplete(Tail(hits))
         ELSE Partial(Head(hits))

NeverNavigated ==
    /\ pc \in {"exit", "panicked"}
    /\ context = << >>
    /\ items = << >>
    /\ prompt_message = ""

\* C9 (as stated): in search mode "No entries found" is printed iff the
\* result is empty; otherwise a count line and then every hit formatted, in
\* result order, each followed by a blank line; the navigation is never
\* entered.
C9_SearchOutputAllHits ==
    (SearchRan /\ search_result # << >>) =>
        LET r == search_result[1] IN
        /\ NeverNavigated
        /\ (out = << NoEntriesFound >>) = (r = << >>)
        /\ r # << >> =>
              /\ \A i \in 1..Len(r) : EntryComplete(r[i])
              /\ out = << CountLine(Len(r), SearchedTitle) >> \o AllFormatted(r)

\* C9 (amended): in search mode the navigation is never entered.  When the
\* search fails nothing is printed.  When it returns, "No entries found" is
\* printed iff the result is empty; otherwise a count line and then the hits
\* formatted, in result order, each followed by a blank line, up to the first
\* hit that lacks a username or password: the formatter fails fatally in that
\* hit after its title line (and its username line, if it has one), and
\* nothing more is printed.
C9_SearchOutput ==
    SearchRan =>
        /\ NeverNavigated
        /\ search_result = << >> => (out = << >> /\ pc = "panicked")
        /\ search_result # << >> =>
              LET r == search_result[1] IN
              /\ (out = << NoEntriesFound >>) = (r = << >>)
              /\ r = << >> => pc = "exit"
              /\ r # << >> =>
                    /\ out = << CountLine(Len(r), SearchedTitle) >>
                             \o FormattedUntilIncomplete(r)
                    /\ (pc = "exit") = (\A i \in 1..Len(r) : EntryComplete(r[i]))

C9_Witness ==
    /\ SearchRan
    /\ pc = "exit"
    /\ search_result # << >>
    /\ Len(search_result[1]) = 2
    /\ out[1].text = "Found 2 result(s) for title name \"Email\""

\* the last step selected an entry, which was formatted
EntryShown == Displayed /\ out # << >>

ShownEntry == selections[Last(context).index + 1]

\* C10: for an entry with title, username and password the formatter writes
\* the title line, the username line and the password line, in that order,
\* and then a notes line iff the Notes field is present and not empty.
C10_EntryLines ==
    EntryShown =>
        LET e == ShownEntry
            shown == SubSeq(out, 1, Len(out) - 1)
        IN  /\ db[e].kind = "Entry"
            /\ EntryComplete(e)
            /\ Last(out) = BlankLine
            /\ Len(shown) \in {3, 4}
            /\ shown[1] = Line("italic", "", db[e].fields.Title)
            /\ shown[2] = Line("bold", "  user: ", db[e].fields.UserName)
            /\ shown[3] = Line("bold", "  key: ", db[e].fields.Password)
            /\ (Len(shown) = 4) = (HasField(e, "Notes") /\ db[e].fields.Notes # "")
            /\ Len(shown) = 4 => shown[4] = Line("plain", "  note: ", db[e].fields.Notes)

C10_Witness == EntryShown /\ Len(out) = 5 /\ out[4].text = "call back"

(***************************************************************************)
(* Properties of the navigation steps.                                     *)
(***************************************************************************)
\* the step answers the displayed prompt with an index whose child is an entry
EntrySelected ==
    /\ Displayed
    /\ selection' # << >>
    /\ selection'[1] # << >>
    /\ db[selections[selection'[1][1] + 1]].kind = "Entry"

\* the step leaves the stack as it is but for the cursor of the top frame,
\* which becomes i
OnlyTopCursorBecomes(i) ==
    /\ Len(context') = Len(context)
    /\ \A k \in 1..Len(context) : context'[k].node = context[k].node
    /\ \A k \in 1..(Len(context) - 1) : context'[k].index = context[k].index
    /\ Last(context').index = i

\* C11 (as stated): selecting the entry at index i of the displayed group
\* formats exactly that entry, prints a blank line and displays the same
\* group again; the stack keeps its depth and groups and only the top
\* frame's cursor changes, to i.
C11_EntrySelectionAlwaysRedisplays ==
    [][EntrySelected =>
          LET i == selection'[1][1]
              e == selections[i + 1]
          IN  /\ OnlyTopCursorBecomes(i)
              /\ EntryComplete(e)
              /\ out' = Formatted(e) \o << BlankLine >>
              /\ pc' = "prompt"
              /\ node' = node
              /\ selections' = selections
              /\ last_selected_index' = i]_vars

\* C11 (amended): selecting the entry at index i of the displayed group keeps
\* the depth and the groups of the stack and changes only the top frame's
\* cursor, to i.  When the entry has a username and a password it is
\* formatted, a blank line is printed and the same group is displayed again;
\* otherwise the formatter fails fatally after the lines it has written, and
\* neither the blank line nor another prompt follows.
C11_EntrySelectionKeepsPosition ==
    [][EntrySelected =>
          LET i == selection'[1][1]
              e == selections[i + 1]
          IN  /\ OnlyTopCursorBecomes(i)
              /\ IF EntryComplete(e)
                 THEN /\ out' = Formatted(e) \o << BlankLine >>
                      /\ pc' = "prompt"
                      /\ node' = node
                      /\ node' = Last(context').node
                      /\ selections' = selections
                      /\ last_selected_index' = i
                 ELSE /\ out' = Partial(e)
                      /\ pc' = "panicked"]_vars

\* the entry at index 1 of a sub-group was selected and the sub-group is
\* displayed again
C11_Witness ==
    /\ Displayed
    /\ Len(context) = 2
    /\ selection = << << 1 >> >>
    /\ out # << >>
    /\ Last(context).index = 1

\* C12 (as stated): when the group of the top frame has no children, the
\* display step still presents its (empty) list without failing, waiting for
\* the cancellation that pops the frame.
C12_EmptyGroupIsDisplayed ==
    (context # << >> /\ db[Last(context).node].children = << >>) => pc = "prompt"

\* C13: at every display step the stack is not empty and its bottom frame
\* is the root group's; the termination marker is printed, once and with
\* nothing displayed after it, exactly by the cancellation that pops the last
\* frame.
C13_SingleTerminalState ==
    /\ [](Displayed => (context # << >> /\ context[1].node = Root))
    /\ [](pc = "done" => (context = << >> /\ out = << BlankLine, EndLine >>))
    /\ [](pc # "done" => \A k \in 1..Len(out) : out[k] # EndLine)
    /\ [][(pc' = "done") = (Displayed /\ selection' = << << >> >> /\ Len(context) = 1)]_vars
    /\ [][pc # "done"]_vars

C13_Witness ==
    /\ pc = "done"
    /\ context = << >>
    /\ out = << BlankLine, EndLine >>
    /\ selection = << << >> >>

\* the step answers the displayed prompt with an index whose child is a group
GroupSelected ==
    /\ Displayed
    /\ selection' # << >>
    /\ selection'[1] # << >>
    /\ db[selections[selection'[1][1] + 1]].kind = "Group"

\* C14: selecting the sub-group at index i of the displayed group pushes
\* exactly one frame, whose group is that sub-group and whose cursor is 0:
\* the depth grows by exactly 1, the frames below keep their groups, the
\* former top frame has cursor i, and the display step that follows lists
\* the sub-group's children with default index 0.
C14_GroupDescentPushesOneFrame ==
    [][GroupSelected =>
          LET i == selection'[1][1]
              g == selections[i + 1]
              d == Len(context)
          IN  /\ Len(context') = d + 1
              /\ context'[d + 1] = [node |-> g, index |-> 0]
              /\ context'[d] = [node |-> context[d].node, index |-> i]
              /\ \A k \in 1..(d - 1) : context'[k] = context[k]
              /\ node' = g
              /\ selections' = db[g].children
              /\ last_selected_index' = 0
              /\ pc' \in {"prompt", "panicked"}
              /\ pc' = "prompt" =>
                    /\ Len(items') = Len(db[g].children)
                    /\ db[g].children # << >>]_vars

\* the sub-group at index 1 of the root was selected and is displayed
C14_Witness ==
    /\ Displayed
    /\ Len(context) = 2
    /\ selection = << << 1 >> >>
    /\ context[1].index = 1
    /\ context[2] = [node |-> db[Root].children[2], index |-> 0]

\* the formatter failed on the entry selected in the navigation
FormatterFailedInNavigation ==
    pc = "panicked" /\ context # << >> /\ Last(picked) # << >>

\* the formatter failed on a hit of the search
FormatterFailedInSearch == SearchRan /\ pc = "panicked" /\ search_result # << >>

\* C15 (as stated): an entry without a username or password is never
\* formatted with a blank value; the formatter fails on it, and when it
\* fails no line of that entry has been written.
C15_NoPartialEntry ==
    /\ EntryShown => EntryComplete(ShownEntry)
    /\ FormatterFailedInNavigation =>
          (~EntryComplete(selections[Last(context).index + 1]) /\ out = << >>)
    /\ FormatterFailedInSearch => Last(out).style = "plain"

\* C16 (as stated): an entry without a Title is fatal only when it is the
\* entry viewed or a hit of the search: a search that matches no entry
\* returns the empty sequence and "No entries found" is printed, whatever
\* the tree holds.
C16_MissingTitleConfined ==
    (SearchRan /\ MatchingEntries(SearchedTitle) = {}) =>
        /\ search_result = << << >> >>
        /\ out = << NoEntriesFound >>
        /\ pc = "exit"

\* C17: when opening the database fails, main returns the error at once:
\* the search is not run, no prompt is displayed, nothing is printed, and
\* nothing is tried again.
C17_OpenFailureStopsMain ==
    /\ []((~open_ok /\ pc # "start") =>
            /\ pc = "open_failed"
            /\ search_result = << >>
            /\ context = << >>
            /\ selection = << >>
            /\ items = << >>
            /\ prompt_message = ""
            /\ out = << >>)
    /\ [][pc # "open_failed"]_vars

C17_Witness == pc = "open_failed" /\ ~open_ok /\ args.entry_title = << "Email" >>

Children(g) == db[g].children

\* C18: at every display step the group whose children are listed, the node
\* argument of prompt, is the group of the top frame.
C18_DisplayedGroupIsTop ==
    context # << >> =>
        /\ node = Last(context).node
        /\ selections = Children(Last(context).node)
        /\ Displayed => Len(items) = Len(Children(Last(context).node))

\* two descents and then the entry at index 0 of the innermost group
C18_Witness ==
    /\ Displayed
    /\ Len(context) = 3
    /\ node = context[3].node
    /\ node # Root
    /\ out # << >>

\* C19: for every two adjacent frames the upper frame's group is the child of
\* the lower frame's group at the lower frame's cursor; and the cursor of
\* every frame whose group has children is an index into them.
C19_StackIsParentChildChain ==
    /\ \A k \in 1..(Len(context) - 1) :
          /\ context[k].index < Len(Children(context[k].node))
          /\ Children(context[k].node)[context[k].index + 1] = context[k + 1].node
    /\ \A k \in 1..Len(context) :
          Children(context[k].node) # << >> =>
              context[k].index \in 0..(Len(Children(context[k].node)) - 1)

\* root, its sub-group at index 1 and an entry selected at index 0 of it
C19_Witness ==
    /\ Displayed
    /\ Len(context) = 2
    /\ context[1].index = 1
    /\ context[2].node = Children(Root)[2]
    /\ picked[2] = << 0 >>

\* C20: no step changes the tree; a selection leaves every frame below the
\* top as it is and keeps the top frame's group, pushing at most one frame; a
\* cancellation only removes the top frame.
C20_StepsTouchOnlyTheTop ==
    [][/\ db' = db
       /\ (Displayed /\ selection' # << >> /\ selection'[1] # << >>) =>
             /\ Len(context') \in {Len(context), Len(context) + 1}
             /\ \A k \in 1..(Len(context) - 1) : context'[k] = context[k]
             /\ context'[Len(context)].node = context[Len(context)].node
       /\ (Displayed /\ selection' = << << >> >>) =>
             context' = SubSeq(context, 1, Len(context) - 1)]_vars

\* a cancellation at depth 3 led back to the sub-group it was entered from
C20_Witness ==
    /\ Displayed
    /\ Len(context) = 2
    /\ selection = << << >> >>
    /\ left # << >>
    /\ left[1].node = Children(context[2].node)[context[2].index + 1]

====
